---- MODULE Spec2Model ----
(***************************************************************************)
(* Model of mm (src/mm.go): a one-shot mail submission agent.  It reads a   *)
(* message from standard input, completes and orders its headers, and      *)
(* submits it over SMTP through a SOCKS5 proxy.                            *)
(*                                                                         *)
(* src/mm.go holds two listings of the program.  The model follows the     *)
(* first (lines 1-297), the later version: the one with the config file,   *)
(* the header map, headerPriority and sortHeaders.  The second (lines      *)
(* 298-536) is the earlier version, which keeps the headers as text.       *)
(*                                                                         *)
(* A Go string is modelled as a sequence of one-character strings, so     *)
(* that indexing, trimming, splitting and byte-wise comparison are        *)
(* computed as the Go library computes them.                               *)
(***************************************************************************)
EXTENDS Integers, Sequences, FiniteSets, TLC

VARIABLES
    input,          \* os.Stdin as bufio.Scanner yields it: the sequence of lines
    omitUserAgent,  \* whether the caller's configuration asks to omit User-Agent
    rnd,            \* history: what crypto/rand and the clock gave generateMessageID
    username,       \* *username (flag -u, possibly filled from the config file)
    password,       \* *password (flag -p, possibly filled from the config file)
    pc,             \* position of main
    pos,            \* number of lines the scanner has returned so far
    headers,        \* headers map[string]string
    body,           \* body strings.Builder
    hasFrom,        \* hasFrom
    fromEmail,      \* fromEmail EmailAddress
    sortedHeaders,  \* sortedHeaders
    message,        \* message
    toEmail,        \* toEmail EmailAddress
    steps,          \* history: the library calls main has issued, with argument and outcome
    stdout,         \* the lines main printed (debug output excluded)
    exit            \* process exit status; Running until the process ends

vars == <<input, omitUserAgent, rnd, username, password, pc, pos, headers, body,
          hasFrom, fromEmail, sortedHeaders, message, toEmail, steps, stdout, exit>>

(***************************************************************************)
(* Bytes.  Ascii[i] is the character with code i + 31 (code 96 is written  *)
(* "grave": the lexer does not accept that character in a string).         *)
(***************************************************************************)
Ascii ==
   << " ", "!", "\"", "#", "$", "%", "&", "'", "(", ")", "*", "+", ",", "-", ".", "/",
      "0", "1", "2", "3", "4", "5", "6", "7", "8", "9", ":", ";", "<", "=", ">", "?",
      "@", "A", "B", "C", "D", "E", "F", "G", "H", "I", "J", "K", "L", "M", "N", "O",
      "P", "Q", "R", "S", "T", "U", "V", "W", "X", "Y", "Z", "[", "\\", "]", "^", "_",
      "grave", "a", "b", "c", "d", "e", "f", "g", "h", "i", "j", "k", "l", "m", "n", "o",
      "p", "q", "r", "s", "t", "u", "v", "w", "x", "y", "z", "{", "|", "}", "~" >>

CR == "\r"
LF == "\n"
TAB == "\t"

\* The byte value of a character.
Ord ==
    [c \in {Ascii[i] : i \in 1..Len(Ascii)} \cup {CR, LF, TAB} |->
        IF c = CR THEN 13
        ELSE IF c = LF THEN 10
        ELSE IF c = TAB THEN 9
        ELSE 31 + (CHOOSE i \in 1..Len(Ascii) : Ascii[i] = c)]

\* The character of a printable byte value.
Chr(n) == Ascii[n - 31]

\* unicode.IsSpace restricted to the bytes of the model.
IsSpace(c) == c \in {" ", CR, LF, TAB}

\* unicode.ToLower of one byte.
LowerChar(c) == IF Ord[c] >= 65 /\ Ord[c] <= 90 THEN Chr(Ord[c] + 32) ELSE c

\* strings.ToLower
ToLower(s) == [i \in 1..Len(s) |-> LowerChar(s[i])]

\* strings.EqualFold on ASCII text
EqualFold(s, t) == ToLower(s) = ToLower(t)

\* s[i:] and s[:i] with Go's zero-based index i
From0(s, i) == SubSeq(s, i + 1, Len(s))
Upto0(s, i) == SubSeq(s, 1, i)

\* strings.HasPrefix
HasPrefix(s, p) == Len(s) >= Len(p) /\ SubSeq(s, 1, Len(p)) = p

\* strings.TrimPrefix
TrimPrefix(s, p) == IF HasPrefix(s, p) THEN From0(s, Len(p)) ELSE s

\* strings.Index for a one-byte needle: zero-based index of the first c, or -1
Index(s, c) ==
    IF \E i \in 1..Len(s) : s[i] = c
    THEN (CHOOSE i \in 1..Len(s) : s[i] = c /\ \A j \in 1..(i - 1) : s[j] # c) - 1
    ELSE -1

\* strings.LastIndex for a one-byte needle: zero-based index of the last c, or -1
LastIndex(s, c) ==
    IF \E i \in 1..Len(s) : s[i] = c
    THEN (CHOOSE i \in 1..Len(s) : s[i] = c /\ \A j \in (i + 1)..Len(s) : s[j] # c) - 1
    ELSE -1

\* strings.Trim(s, cutset): drop the leading and trailing bytes that are in cutset
Trim(s, cutset) ==
    LET keep == {i \in 1..Len(s) : s[i] \notin cutset}
    IN IF keep = {} THEN <<>>
       ELSE LET lo == CHOOSE i \in keep : \A j \in keep : i <= j
                hi == CHOOSE i \in keep : \A j \in keep : j <= i
            IN SubSeq(s, lo, hi)

\* strings.TrimSpace
TrimSpace(s) == Trim(s, {" ", CR, LF, TAB})

\* strings.SplitN(s, sep, 2) for a one-byte separator: one or two parts
SplitN2(s, sep) ==
    LET i == Index(s, sep)
    IN IF i = -1 THEN <<s>> ELSE <<Upto0(s, i), From0(s, i + 1)>>

\* fmt.Sprintf("%d", n) for n >= 0
RECURSIVE Itoa(_)
Itoa(n) == IF n < 10 THEN <<Chr(48 + n)>> ELSE Itoa(n \div 10) \o <<Chr(48 + (n % 10))>>

\* Go's < on strings: byte-wise lexicographic order, a proper prefix first
StrLess(a, b) ==
    \E i \in 1..(Len(b)) :
        /\ i <= Len(a) + 1
        /\ \A j \in 1..(i - 1) : a[j] = b[j]
        /\ \/ i = Len(a) + 1
           \/ Ord[a[i]] < Ord[b[i]]

\* sort.Strings: the slice in ascending order
RECURSIVE SortStrings(_)
SortStrings(s) ==
    IF s = <<>> THEN <<>>
    ELSE LET rest == SortStrings(Tail(s))
             x == Head(s)
             k == Cardinality({i \in 1..Len(rest) : StrLess(rest[i], x)})
         IN SubSeq(rest, 1, k) \o <<x>> \o SubSeq(rest, k + 1, Len(rest))

\* Concatenation of a sequence of strings (strings.Builder)
RECURSIVE Concat(_)
Concat(ss) == IF ss = <<>> THEN <<>> ELSE Head(ss) \o Concat(Tail(ss))

(***************************************************************************)
(* String literals of the program.                                         *)
(***************************************************************************)
STo_ == <<"T", "o", ":">>
SFrom_ == <<"F", "r", "o", "m", ":">>
SFrom == <<"F", "r", "o", "m">>
STo == <<"T", "o">>
SMessageID == <<"M", "e", "s", "s", "a", "g", "e", "-", "I", "D">>
SUserAgent == <<"U", "s", "e", "r", "-", "A", "g", "e", "n", "t">>
SUserAgentValue == <<"M", "i", "n", "i", " ", "M", "a", "i", "l", "e", "r", " ", "v", "0", ".", "1", ".", "2">>
SDefaultName == <<"M", "i", "n", "i", " ", "M", "a", "i", "l", "e", "r">>
SDefaultAddress == <<"b", "o", "u", "n", "c", "e", ".", "m", "e", "@", "m", "i", "n", "i", ".", "m", "a", "i", "l", "e", "r", ".", "m", "s", "g">>
SFallback == <<"x", "x", "x", "x", "x">>
letters == <<"a", "b", "c", "d", "e", "f", "g", "h", "i", "j", "k", "l", "m", "n", "o", "p", "q", "r", "s", "t", "u", "v", "w", "x", "y", "z">>
hexdigits == <<"0", "1", "2", "3", "4", "5", "6", "7", "8", "9", "a", "b", "c", "d", "e", "f">>
CRLF == <<"\r", "\n">>
SColonSpace == <<":", " ">>

\* headerPriority: rank of a header by its lower-cased name
headerPriority ==
       <<"f", "r", "o", "m">> :> 1
    @@ <<"r", "e", "p", "l", "y", "-", "t", "o">> :> 2
    @@ <<"n", "e", "w", "s", "g", "r", "o", "u", "p", "s">> :> 3
    @@ <<"s", "u", "b", "j", "e", "c", "t">> :> 4
    @@ <<"d", "a", "t", "e">> :> 5
    @@ <<"m", "e", "s", "s", "a", "g", "e", "-", "i", "d">> :> 6
    @@ <<"m", "i", "m", "e", "-", "v", "e", "r", "s", "i", "o", "n">> :> 7
    @@ <<"c", "o", "n", "t", "e", "n", "t", "-", "t", "r", "a", "n", "s", "f", "e", "r", "-", "e", "n", "c", "o", "d", "i", "n", "g">> :> 8
    @@ <<"c", "o", "n", "t", "e", "n", "t", "-", "t", "y", "p", "e">> :> 9
    @@ <<"r", "e", "f", "e", "r", "e", "n", "c", "e", "s">> :> 10
    @@ <<"o", "r", "g", "a", "n", "i", "z", "a", "t", "i", "o", "n">> :> 11

(***************************************************************************)
(* generateRandomLetters, generateMessageID.  A call of rand.Read is an    *)
(* input of the run: rd.ok tells whether it succeeded, rd.bytes is what    *)
(* the buffer holds afterwards.                                            *)
(***************************************************************************)
generateRandomLetters(n, rd) ==
    IF ~rd.ok THEN SFallback
    ELSE [i \in 1..n |-> letters[(rd.bytes[i] % 26) + 1]]

\* fmt's %x of a byte slice: two lower-case hex digits per byte
HexBytes(bs) ==
    Concat([i \in 1..Len(bs) |->
                <<hexdigits[(bs[i] \div 16) + 1], hexdigits[(bs[i] % 16) + 1]>>])

generateMessageID(rdID, timestamp, rdDomain, rdTld) ==
    LET randomBytes == rdID.bytes
        domain == generateRandomLetters(5, rdDomain)
        tld == generateRandomLetters(2, rdTld)
    IN <<"<">> \o HexBytes(randomBytes) \o <<".">> \o Itoa(timestamp) \o <<"@">>
           \o domain \o <<".">> \o tld \o <<">">>

(***************************************************************************)
(* parseEmailHeader                                                        *)
(***************************************************************************)
EmailAddress(name, address) == [Name |-> name, Address |-> address]

\* the line after the prefixes are stripped and the space trimmed
StripField(line) == TrimSpace(TrimPrefix(TrimPrefix(line, STo_), SFrom_))

\* the branch taken when the line has a "<": "Name <email>"
AngleForm(line) ==
    LET idx == LastIndex(line, "<")
    IN EmailAddress(TrimSpace(Upto0(line, idx)), Trim(From0(line, idx), {"<", ">", " "}))

\* the branch taken when the line has a "(" and no "<": "email (Name)"
ParenForm(line) ==
    LET idx == Index(line, "(")
    IN EmailAddress(Trim(From0(line, idx), {"(", ")", " "}), TrimSpace(Upto0(line, idx)))

\* parseEmailHeader with the two tests in the other order
parseEmailHeader_ParenFirst(raw) ==
    LET line == StripField(raw)
    IN IF Index(line, "(") # -1 THEN ParenForm(line)
       ELSE IF LastIndex(line, "<") # -1 THEN AngleForm(line)
       ELSE EmailAddress(<<>>, line)

parseEmailHeader(raw) ==
    LET line == StripField(raw)
    IN IF LastIndex(line, "<") # -1 THEN AngleForm(line)
       ELSE IF Index(line, "(") # -1 THEN ParenForm(line)
       ELSE EmailAddress(<<>>, line)

(***************************************************************************)
(* sortHeaders.  order is the order in which range visits the keys of the  *)
(* map: a sequence without repetition of the map's keys.                   *)
(***************************************************************************)
IsPriority(key) == ToLower(key) \in DOMAIN headerPriority

\* fmt.Sprintf("%d|%s", prio, key)
PrioEntry(key) == Itoa(headerPriority[ToLower(key)]) \o <<"|">> \o key

\* priorityHeaders and otherHeaders after the range loop and the two sorts
priorityHeaders(order) ==
    LET listed == SelectSeq(order, IsPriority)
    IN SortStrings([i \in 1..Len(listed) |-> PrioEntry(listed[i])])

\* otherHeaders without sort.Strings(otherHeaders)
otherHeaders_Unsorted(order) == SelectSeq(order, LAMBDA k : ~IsPriority(k))

otherHeaders(order) == SortStrings(SelectSeq(order, LAMBDA k : ~IsPriority(k)))

\* the keys in the order the two write loops visit them
EmitOrder(order) ==
    LET prio == priorityHeaders(order)
    IN [i \in 1..Len(prio) |-> SplitN2(prio[i], "|")[2]] \o otherHeaders(order)

\* fmt.Sprintf("%s: %s\r\n", key, headers[key])
HeaderLine(hdrs, key) == key \o SColonSpace \o hdrs[key] \o CRLF

sortHeaders(hdrs, order) ==
    LET keys == EmitOrder(order)
    IN Concat([i \in 1..Len(keys) |-> HeaderLine(hdrs, keys[i])])

(***************************************************************************)
(* Maps (map[string]string)                                                *)
(***************************************************************************)
EmptyMap == [k \in {} |-> <<>>]
MapSet(m, k, v) == [x \in (DOMAIN m) \cup {k} |-> IF x = k THEN v ELSE m[x]]
\* m[k]: the zero value, the empty string, for a missing key
MapGet(m, k) == IF k \in DOMAIN m THEN m[k] ELSE <<>>

\* Orders in which a range loop may visit the keys of a map.  Go leaves the
\* order unspecified: every arrangement of the keys is one.
RECURSIVE RangeOrders(_)
RangeOrders(S) ==
    IF S = {} THEN {<<>>}
    ELSE UNION {{<<k>> \o rest : rest \in RangeOrders(S \ {k})} : k \in S}

(***************************************************************************)
(* Inputs of a run                                                         *)
(***************************************************************************)
MaxLines == 2

LFromAngle == <<"F", "r", "o", "m", ":", " ", "A", " ", "<", "a", "@", "x", ">">>
LFromLower == <<"f", "r", "o", "m", ":", " ", "b", "@", "y">>
LFromEmpty == <<"F", "r", "o", "m", ":", " ", "N", " ", "<", ">">>
LTo == <<"T", "o", ":", " ", "c", "@", "z">>
LMsgID == <<"M", "e", "s", "s", "a", "g", "e", "-", "I", "D", ":", " ", "<", "i", ">">>
LMsgIDLower == <<"m", "e", "s", "s", "a", "g", "e", "-", "i", "d", ":", " ", "<", "m", ">">>
LReferences == <<"R", "e", "f", "e", "r", "e", "n", "c", "e", "s", ":", " ", "<", "r", ">">>
LXTag == <<"X", "-", "T", "a", "g", ":", " ", "t">>
LBlank == <<>>
LText == <<"h", "e", "l", "l", "o">>

\* the lines standard input is made of
Lines == {LFromAngle, LFromLower, LFromEmpty, LTo, LMsgID, LMsgIDLower,
          LReferences, LXTag, LBlank, LText}

Inputs == UNION {[1..n -> Lines] : n \in 0..MaxLines}

\* values of -u and -p, and of username and password in the config file
Credentials == {"", "secret"}

\* what the random source and the clock give to one call of generateMessageID
Entropy ==
    { [id |-> [ok |-> TRUE, bytes |-> <<0, 171, 9, 255, 16>>],
       now |-> 1700000000,
       domain |-> [ok |-> TRUE, bytes |-> <<0, 25, 26, 255, 7>>],
       tld |-> [ok |-> TRUE, bytes |-> <<51, 2>>]],
      [id |-> [ok |-> FALSE, bytes |-> <<0, 0, 0, 0, 0>>],
       now |-> 1700000001,
       domain |-> [ok |-> FALSE, bytes |-> <<0, 0, 0, 0, 0>>],
       tld |-> [ok |-> FALSE, bytes |-> <<0, 0>>]] }

(***************************************************************************)
(* main                                                                    *)
(***************************************************************************)
\* rnd before generateMessageID has run
NoEntropy == [id |-> [ok |-> TRUE, bytes |-> <<>>],
              now |-> 0,
              domain |-> [ok |-> TRUE, bytes |-> <<>>],
              tld |-> [ok |-> TRUE, bytes |-> <<>>]]

Init ==
    /\ input \in Inputs
    /\ omitUserAgent = FALSE
    /\ rnd = NoEntropy
    /\ username \in Credentials
    /\ password \in Credentials
    /\ pc = "args"
    /\ pos = 0
    /\ headers = EmptyMap
    /\ body = <<>>
    /\ hasFrom = FALSE
    /\ fromEmail = EmailAddress(SDefaultName, SDefaultAddress)
    /\ sortedHeaders = <<>>
    /\ message = <<>>
    /\ toEmail = EmailAddress(<<>>, <<>>)
    /\ steps = <<>>
    /\ stdout = <<>>
    /\ exit = -1

\* fmt.Println(msg); os.Exit(1)
Fatal(msg) ==
    /\ stdout' = Append(stdout, msg)
    /\ exit' = 1
    /\ pc' = "exited"

\* a call on the proxy or SMTP library, with its argument and whether it succeeded
Call(step, arg, ok) == steps' = Append(steps, [step |-> step, arg |-> arg, ok |-> ok])

\* lines 132-164: flag.Parse, then the config file or the two positional
\* arguments.  The flag set is flag.CommandLine, which handles errors with
\* flag.ExitOnError: usage goes to standard error and the process ends.
ParseArgs ==
    /\ pc = "args"
    /\ UNCHANGED <<input, omitUserAgent, rnd, pos, headers, body, hasFrom, fromEmail,
                   sortedHeaders, message, toEmail, steps>>
    /\ \/ \* flag.Parse: a flag that is not defined, or a flag without its value
          /\ exit' = 2
          /\ pc' = "exited"
          /\ UNCHANGED <<username, password, stdout>>
       \/ \* flag.Parse: -h or -help
          /\ exit' = 0
          /\ pc' = "exited"
          /\ UNCHANGED <<username, password, stdout>>
       \/ \* -c given and loadConfig fails
          /\ Fatal("Error loading config file:")
          /\ UNCHANGED <<username, password>>
       \/ \* -c given and loadConfig succeeds
          \E cfgUser \in Credentials, cfgPass \in Credentials :
             /\ username' = IF username = "" THEN cfgUser ELSE username
             /\ password' = IF password = "" THEN cfgPass ELSE password
             /\ pc' = "headers"
             /\ UNCHANGED <<stdout, exit>>
       \/ \* no -c and len(args) != 2
          /\ Fatal("Usage: mm")
          /\ UNCHANGED <<username, password>>
       \/ \* no -c and two positional arguments
          /\ pc' = "headers"
          /\ UNCHANGED <<username, password, stdout, exit>>

\* ScanLine without strings.TrimSpace on the value
ScanLine_NoTrim(hdrs, line) ==
    LET parts == SplitN2(line, ":")
    IN IF Len(parts) = 2
       THEN MapSet(hdrs, TrimSpace(parts[1]), parts[2])
       ELSE hdrs

\* lines 182-187: what one line with text does to the header map
ScanLine(hdrs, line) ==
    LET parts == SplitN2(line, ":")
    IN IF Len(parts) = 2
       THEN MapSet(hdrs, TrimSpace(parts[1]), TrimSpace(parts[2]))
       ELSE hdrs

\* ScanHeaderLine with a line without a colon taken as the first line of the body
ScanHeaderLine_BareEnds ==
    /\ pc = "headers"
    /\ pos < Len(input)
    /\ input[pos + 1] # <<>>
    /\ pos' = pos + 1
    /\ LET line == input[pos + 1]
           parts == SplitN2(line, ":")
           key == TrimSpace(parts[1])
       IN IF Len(parts) = 2
          THEN /\ headers' = ScanLine(headers, line)
               /\ IF EqualFold(key, SFrom)
                  THEN /\ fromEmail' = parseEmailHeader(line)
                       /\ hasFrom' = TRUE
                  ELSE UNCHANGED <<fromEmail, hasFrom>>
               /\ UNCHANGED <<pc, body>>
          ELSE /\ body' = body \o line \o CRLF
               /\ pc' = "body"
               /\ UNCHANGED <<headers, fromEmail, hasFrom>>
    /\ UNCHANGED <<input, omitUserAgent, rnd, username, password,
                   sortedHeaders, message, toEmail, steps, stdout, exit>>

\* lines 176-193, one iteration of the header loop on a line with text
ScanHeaderLine ==
    /\ pc = "headers"
    /\ pos < Len(input)
    /\ input[pos + 1] # <<>>
    /\ pos' = pos + 1
    /\ LET line == input[pos + 1]
           parts == SplitN2(line, ":")
           key == TrimSpace(parts[1])
       IN IF Len(parts) = 2
          THEN /\ headers' = ScanLine(headers, line)
               /\ IF EqualFold(key, SFrom)
                  THEN /\ fromEmail' = parseEmailHeader(line)
                       /\ hasFrom' = TRUE
                  ELSE UNCHANGED <<fromEmail, hasFrom>>
          ELSE UNCHANGED <<headers, fromEmail, hasFrom>>
    /\ UNCHANGED <<input, omitUserAgent, rnd, username, password, pc, body,
                   sortedHeaders, message, toEmail, steps, stdout, exit>>

\* lines 176-180: the header loop ends at an empty line, which is consumed,
\* or at the end of the input
EndHeaders ==
    /\ pc = "headers"
    /\ \/ /\ pos < Len(input)
          /\ input[pos + 1] = <<>>
          /\ pos' = pos + 1
       \/ /\ pos = Len(input)
          /\ pos' = pos
    /\ pc' = "body"
    /\ UNCHANGED <<input, omitUserAgent, rnd, username, password, headers, body, hasFrom, fromEmail,
                   sortedHeaders, message, toEmail, steps, stdout, exit>>

\* ScanBodyLine with the line feed alone as the terminator
ScanBodyLine_LF ==
    /\ pc = "body"
    /\ pos < Len(input)
    /\ pos' = pos + 1
    /\ body' = body \o input[pos + 1] \o <<LF>>
    /\ UNCHANGED <<input, omitUserAgent, rnd, username, password, pc, headers, hasFrom,
                   fromEmail, sortedHeaders, message, toEmail, steps, stdout, exit>>

\* lines 195-197, one iteration of the body loop
ScanBodyLine ==
    /\ pc = "body"
    /\ pos < Len(input)
    /\ pos' = pos + 1
    /\ body' = body \o input[pos + 1] \o CRLF
    /\ UNCHANGED <<input, omitUserAgent, rnd, username, password, pc, headers, hasFrom, fromEmail,
                   sortedHeaders, message, toEmail, steps, stdout, exit>>

\* EnsureFrom without the insertion of the default From header
EnsureFrom_Skip(hdrs) == hdrs

\* lines 199-201
EnsureFrom(hdrs) ==
    IF ~hasFrom
    THEN MapSet(hdrs, SFrom, fromEmail.Name \o <<" ", "<">> \o fromEmail.Address \o <<">">>)
    ELSE hdrs

\* lines 203-205
EnsureMessageID(hdrs, e) ==
    IF SMessageID \notin DOMAIN hdrs
    THEN MapSet(hdrs, SMessageID, generateMessageID(e.id, e.now, e.domain, e.tld))
    ELSE hdrs

\* line 207
SetUserAgent(hdrs) == MapSet(hdrs, SUserAgent, SUserAgentValue)

\* lines 195-210: the body loop ends, the headers are completed and the
\* message is built
BuildMessage ==
    /\ pc = "body"
    /\ pos = Len(input)
    /\ \E e \in Entropy :
          LET completed == SetUserAgent(EnsureMessageID(EnsureFrom(headers), e))
          IN /\ headers' = completed
             /\ rnd' = IF SMessageID \in DOMAIN EnsureFrom(headers) THEN rnd ELSE e
             /\ \E order \in RangeOrders(DOMAIN completed) :
                   sortedHeaders' = sortHeaders(completed, order)
    /\ message' = sortedHeaders' \o CRLF \o body
    /\ pc' = "connect"
    /\ UNCHANGED <<input, omitUserAgent, username, password, pos, body, hasFrom, fromEmail,
                   toEmail, steps, stdout, exit>>

\* the variables the delivery session never writes
MessageVars == <<input, omitUserAgent, rnd, username, password, pos, headers, body,
                 hasFrom, fromEmail, sortedHeaders, message>>

\* lines 212-216: proxy.SOCKS5 builds the dialer; nothing is sent yet
CreateDialer ==
    /\ pc = "connect"
    /\ \/ /\ pc' = "dial"
          /\ UNCHANGED <<stdout, exit>>
       \/ Fatal("Error creating proxy dialer:")
    /\ UNCHANGED <<MessageVars, toEmail, steps>>

\* lines 218-222: dialer.Dial
ProxyConnect ==
    /\ pc = "dial"
    /\ \E ok \in BOOLEAN :
          /\ Call("ProxyConnect", <<>>, ok)
          /\ IF ok THEN pc' = "greet" /\ UNCHANGED <<stdout, exit>>
                   ELSE Fatal("Error connecting:")
    /\ UNCHANGED <<MessageVars, toEmail>>

\* lines 228-232: smtp.NewClient
ProtocolGreet ==
    /\ pc = "greet"
    /\ \E ok \in BOOLEAN :
          /\ Call("ProtocolGreet", <<>>, ok)
          /\ IF ok THEN pc' = "starttls" /\ UNCHANGED <<stdout, exit>>
                   ELSE Fatal("Error creating SMTP client:")
    /\ UNCHANGED <<MessageVars, toEmail>>

\* UseAuth with one credential being enough
UseAuth_Either == username # "" \/ password # ""

\* line 239: the condition under which c.Auth is called
UseAuth == username # "" /\ password # ""

\* TLSUpgrade with the error of c.StartTLS treated as fatal
TLSUpgrade_Abort ==
    /\ pc = "starttls"
    /\ \E ok \in BOOLEAN :
          /\ Call("TLSUpgrade", <<>>, ok)
          /\ IF ok THEN pc' = (IF UseAuth THEN "auth" ELSE "mail") /\ UNCHANGED <<stdout, exit>>
                   ELSE Fatal("Error starting TLS:")
    /\ UNCHANGED <<MessageVars, toEmail>>

\* lines 237-239: c.StartTLS, its error dropped, then the test of the credentials
TLSUpgrade ==
    /\ pc = "starttls"
    /\ \E ok \in BOOLEAN : Call("TLSUpgrade", <<>>, ok)
    /\ pc' = IF UseAuth THEN "auth" ELSE "mail"
    /\ UNCHANGED <<MessageVars, toEmail, stdout, exit>>

\* lines 243-247: c.Auth
Authenticate ==
    /\ pc = "auth"
    /\ \E ok \in BOOLEAN :
          /\ Call("Authenticate", <<>>, ok)
          /\ IF ok THEN pc' = "mail" /\ UNCHANGED <<stdout, exit>>
                   ELSE Fatal("Error authenticating:")
    /\ UNCHANGED <<MessageVars, toEmail>>

\* MailFrom without the os.Exit(1): a rejected sender does not stop the run
MailFrom_NoAbort ==
    /\ pc = "mail"
    /\ \E ok \in BOOLEAN : Call("MAIL FROM", fromEmail.Address, ok)
    /\ pc' = "rcpt"
    /\ UNCHANGED <<MessageVars, toEmail, stdout, exit>>

\* lines 253-256: c.Mail
MailFrom ==
    /\ pc = "mail"
    /\ \E ok \in BOOLEAN :
          /\ Call("MAIL FROM", fromEmail.Address, ok)
          /\ IF ok THEN pc' = "rcpt" /\ UNCHANGED <<stdout, exit>>
                   ELSE Fatal("Error MAIL FROM:")
    /\ UNCHANGED <<MessageVars, toEmail>>

\* lines 258-265: the recipient is parsed from headers["To"], then c.Rcpt
RcptTo ==
    /\ pc = "rcpt"
    /\ toEmail' = parseEmailHeader(MapGet(headers, STo))
    /\ \E ok \in BOOLEAN :
          /\ Call("RCPT TO", toEmail'.Address, ok)
          /\ IF ok THEN pc' = "data" /\ UNCHANGED <<stdout, exit>>
                   ELSE Fatal("Error RCPT TO:")
    /\ UNCHANGED MessageVars

\* lines 267-271: c.Data
DataOpen ==
    /\ pc = "data"
    /\ \E ok \in BOOLEAN :
          /\ Call("DATA open", <<>>, ok)
          /\ IF ok THEN pc' = "write" /\ UNCHANGED <<stdout, exit>>
                   ELSE Fatal("Error getting data writer:")
    /\ UNCHANGED <<MessageVars, toEmail>>

\* lines 280-284: w.Write
DataWrite ==
    /\ pc = "write"
    /\ \E ok \in BOOLEAN :
          /\ Call("payload write", message, ok)
          /\ IF ok THEN pc' = "close" /\ UNCHANGED <<stdout, exit>>
                   ELSE Fatal("Error writing message:")
    /\ UNCHANGED <<MessageVars, toEmail>>

\* DataClose with the error of w.Close dropped
DataClose_IgnoreError ==
    /\ pc = "close"
    /\ \E ok \in BOOLEAN : Call("DATA close", <<>>, ok)
    /\ pc' = "quit"
    /\ UNCHANGED <<MessageVars, toEmail, stdout, exit>>

\* lines 286-290: w.Close
DataClose ==
    /\ pc = "close"
    /\ \E ok \in BOOLEAN :
          /\ Call("DATA close", <<>>, ok)
          /\ IF ok THEN pc' = "quit" /\ UNCHANGED <<stdout, exit>>
                   ELSE Fatal("Error closing writer:")
    /\ UNCHANGED <<MessageVars, toEmail>>

\* lines 295-297: c.Quit, its error dropped, the confirmation, and main returns
Quit ==
    /\ pc = "quit"
    /\ \E ok \in BOOLEAN : Call("QUIT", <<>>, ok)
    /\ stdout' = Append(stdout, "Message sent successfully!")
    /\ exit' = 0
    /\ pc' = "exited"
    /\ UNCHANGED <<MessageVars, toEmail>>

Next ==
    \/ ParseArgs
    \/ ScanHeaderLine
    \/ EndHeaders
    \/ ScanBodyLine
    \/ BuildMessage
    \/ CreateDialer
    \/ ProxyConnect
    \/ ProtocolGreet
    \/ TLSUpgrade
    \/ Authenticate
    \/ MailFrom
    \/ RcptTo
    \/ DataOpen
    \/ DataWrite
    \/ DataClose
    \/ Quit

Spec == Init /\ [][Next]_vars

(***************************************************************************)
(* Reading the input and the output: the notions the properties are        *)
(* stated in.                                                              *)
(***************************************************************************)
\* the header section of an input: the lines before the first empty line
HeaderBlock(inp) ==
    IF \E i \in 1..Len(inp) : inp[i] = <<>>
    THEN SubSeq(inp, 1, (CHOOSE i \in 1..Len(inp) :
                            inp[i] = <<>> /\ \A j \in 1..(i - 1) : inp[j] # <<>>) - 1)
    ELSE inp

IsHeaderLine(line) == \E i \in 1..Len(line) : line[i] = ":"
NameOf(line) == TrimSpace(SplitN2(line, ":")[1])
ValueOf(line) == TrimSpace(SplitN2(line, ":")[2])

\* the positions of the header lines of the input that carry the header name,
\* compared without regard to case
InputLinesOf(name) ==
    {i \in 1..Len(HeaderBlock(input)) :
        /\ IsHeaderLine(input[i])
        /\ EqualFold(NameOf(input[i]), name)}

InputHas(name) == InputLinesOf(name) # {}

\* the text cut at every CRLF
RECURSIVE SplitCRLF(_)
SplitCRLF(t) ==
    LET ends == {i \in 1..(Len(t) - 1) : t[i] = CR /\ t[i + 1] = LF}
    IN IF t = <<>> THEN <<>>
       ELSE IF ends = {} THEN <<t>>
       ELSE LET i == CHOOSE e \in ends : \A f \in ends : e <= f
            IN <<SubSeq(t, 1, i - 1)>> \o SplitCRLF(SubSeq(t, i + 2, Len(t)))

\* the header lines of the message, as emitted
Emitted == SplitCRLF(sortedHeaders)

\* the message has been built
Built == sortedHeaders # <<>>

Rank(name) == headerPriority[ToLower(name)]

\* the calls issued so far
Issued(step) == \E i \in 1..Len(steps) : steps[i].step = step
Succeeded(step) == \E i \in 1..Len(steps) : steps[i].step = step /\ steps[i].ok
Failed(step) == \E i \in 1..Len(steps) : steps[i].step = step /\ ~steps[i].ok

(***************************************************************************)
(* C1.  The headers of the priority table are emitted in ascending rank:   *)
(* of two emitted table headers, the one with the smaller rank comes       *)
(* first.  The program breaks this: see the trace of C1_RankOrder.         *)
(***************************************************************************)
C1_RankOrder ==
    \A i, j \in 1..Len(Emitted) :
        (/\ IsPriority(NameOf(Emitted[i]))
         /\ IsPriority(NameOf(Emitted[j]))
         /\ Rank(NameOf(Emitted[i])) < Rank(NameOf(Emitted[j]))) => i < j

(***************************************************************************)
(* C2.  An input whose header section has no To header ends in a fatal     *)
(* error: no call on the network is ever issued and the run does not end   *)
(* with status 0.  The program breaks this: see the trace of               *)
(* C2_NoRecipientIsFatal.                                                  *)
(***************************************************************************)
C2_NoRecipientIsFatal ==
    ~InputHas(STo) =>
        /\ steps = <<>>
        /\ exit # 0

(***************************************************************************)
(* C3.  When the input has a Message-ID header, whatever the case of its   *)
(* name, the message carries that value and no generated Message-ID:       *)
(* every emitted Message-ID line carries a value the input gave, and the   *)
(* value of the last such input line is emitted.  The program breaks this: *)
(* see the trace of C3_MessageIDPreserved.                                 *)
(***************************************************************************)
C3_MessageIDPreserved ==
    (InputHas(SMessageID) /\ Built) =>
        /\ \A k \in 1..Len(Emitted) :
              EqualFold(NameOf(Emitted[k]), SMessageID) =>
                  \E i \in InputLinesOf(SMessageID) :
                      ValueOf(Emitted[k]) = ValueOf(input[i])
        /\ \E k \in 1..Len(Emitted) :
              /\ EqualFold(NameOf(Emitted[k]), SMessageID)
              /\ \E i \in InputLinesOf(SMessageID) :
                    /\ \A j \in InputLinesOf(SMessageID) : j <= i
                    /\ ValueOf(Emitted[k]) = ValueOf(input[i])

(***************************************************************************)
(* C4.  The session issues its calls in the order ProxyConnect,            *)
(* ProtocolGreet, TLSUpgrade, Authenticate (if entered), MAIL FROM,        *)
(* RCPT TO, DATA open, payload write, DATA close, QUIT: the calls issued   *)
(* so far are a prefix of that order, with or without Authenticate, none   *)
(* is issued twice, and a failed call other than TLSUpgrade or QUIT is     *)
(* the last one.                                                           *)
(***************************************************************************)
StepOrder ==
    <<"ProxyConnect", "ProtocolGreet", "TLSUpgrade", "Authenticate", "MAIL FROM",
      "RCPT TO", "DATA open", "payload write", "DATA close", "QUIT">>

StepOrderNoAuth == SelectSeq(StepOrder, LAMBDA s : s # "Authenticate")

StepNames == [i \in 1..Len(steps) |-> steps[i].step]

IsPrefix(s, t) == Len(s) <= Len(t) /\ SubSeq(t, 1, Len(s)) = s

C4_StepOrder ==
    /\ IsPrefix(StepNames, StepOrder) \/ IsPrefix(StepNames, StepOrderNoAuth)
    /\ \A i, j \in 1..Len(steps) : i # j => steps[i].step # steps[j].step
    /\ \A i \in 1..Len(steps) :
          (~steps[i].ok /\ steps[i].step \notin {"TLSUpgrade", "QUIT"}) => i = Len(steps)

\* a run that issued all ten calls although the TLS upgrade failed
C4_Witness ==
    /\ Len(steps) = Len(StepOrder)
    /\ Failed("TLSUpgrade")
    /\ pc = "exited"

\* a run that stopped at a rejected recipient
C4_WitnessAbort ==
    /\ Failed("RCPT TO")
    /\ pc = "exited"

(***************************************************************************)
(* C5.  A failed TLS upgrade never aborts the session.  Right after it     *)
(* the run goes on, to Authenticate when both credentials are set and to   *)
(* MAIL FROM otherwise; a run that ended with status 1 after it has        *)
(* another, fatal, call that failed; and a run that ended after it with    *)
(* authentication not entered or successful has issued MAIL FROM.          *)
(***************************************************************************)
C5_TLSFailOpen ==
    \A i \in 1..Len(steps) :
        (steps[i].step = "TLSUpgrade" /\ ~steps[i].ok) =>
            /\ i = Len(steps) => (exit = -1 /\ pc = IF UseAuth THEN "auth" ELSE "mail")
            /\ i < Len(steps) =>
                  steps[i + 1].step = IF UseAuth THEN "Authenticate" ELSE "MAIL FROM"
            /\ exit = 1 =>
                  \E j \in (i + 1)..Len(steps) :
                      ~steps[j].ok /\ steps[j].step \notin {"TLSUpgrade", "QUIT"}
            /\ (pc = "exited" /\ (~UseAuth \/ Succeeded("Authenticate"))) =>
                  Issued("MAIL FROM")

\* the TLS upgrade failed and the message was delivered in cleartext
C5_Witness ==
    /\ Failed("TLSUpgrade")
    /\ Succeeded("MAIL FROM")
    /\ ~Issued("Authenticate")
    /\ exit = 0

(***************************************************************************)
(* C6.  A run ends with status 0 and the confirmation printed exactly     *)
(* when ProxyConnect, ProtocolGreet, Authenticate (when entered), MAIL     *)
(* FROM, RCPT TO, DATA open, payload write and DATA close all succeeded;   *)
(* the confirmation is printed once, last, after QUIT was sent, whatever   *)
(* QUIT answered; a failure of one of those calls gives status 1 and no    *)
(* confirmation.  Status 0 without the confirmation is the help text of    *)
(* flag.Parse, before anything was read or sent.                           *)
(***************************************************************************)
Confirmation == "Message sent successfully!"

FatalSteps ==
    {"ProxyConnect", "ProtocolGreet", "MAIL FROM", "RCPT TO", "DATA open",
     "payload write", "DATA close"}

AllSucceeded ==
    /\ \A s \in FatalSteps : Succeeded(s)
    /\ Issued("Authenticate") => Succeeded("Authenticate")

Confirmations == Cardinality({i \in 1..Len(stdout) : stdout[i] = Confirmation})

C6_ExitStatus ==
    /\ pc = "exited" <=> exit # -1
    /\ pc = "exited" => ((exit = 0 /\ Confirmations = 1) <=> AllSucceeded)
    /\ Confirmations <= 1
    /\ Confirmations = 1 =>
          (exit = 0 /\ Issued("QUIT") /\ stdout[Len(stdout)] = Confirmation)
    \* status 0 without the confirmation is the help of flag.Parse alone
    /\ (exit = 0 /\ Confirmations = 0) => (steps = <<>> /\ stdout = <<>> /\ pos = 0)
    /\ (\E s \in FatalSteps \cup {"Authenticate"} : Failed(s)) =>
          (exit = 1 /\ Confirmations = 0)

\* a delivered message whose QUIT failed: the status is 0 all the same
C6_Witness ==
    /\ exit = 0
    /\ Failed("QUIT")
    /\ Succeeded("Authenticate")

\* a run that failed at the end of the data phase
C6_WitnessFail ==
    /\ exit = 1
    /\ Failed("DATA close")

(***************************************************************************)
(* C7.  When the input has a From header, whatever the case of its name,   *)
(* the address given to MAIL FROM is the address parseEmailHeader yields   *)
(* for the value of that header (of the last one, when there are           *)
(* several).  The program breaks this: see the trace of                    *)
(* C7_SenderFromHeader.                                                    *)
(***************************************************************************)
LastInputLineOf(name) ==
    input[CHOOSE i \in InputLinesOf(name) : \A j \in InputLinesOf(name) : j <= i]

C7_SenderFromHeader ==
    \A k \in 1..Len(steps) :
        (steps[k].step = "MAIL FROM" /\ InputHas(SFrom)) =>
            steps[k].arg = parseEmailHeader(ValueOf(LastInputLineOf(SFrom))).Address

(***************************************************************************)
(* C8.  When the input has no From line, the completed header set holds    *)
(* the From header "Mini Mailer <bounce.me@mini.mailer.msg>", the message  *)
(* emits it, and the address given to MAIL FROM is                         *)
(* bounce.me@mini.mailer.msg.                                              *)
(***************************************************************************)
PlaceholderAddress == <<"b", "o", "u", "n", "c", "e", ".", "m", "e", "@", "m", "i", "n", "i", ".", "m", "a", "i", "l", "e", "r", ".", "m", "s", "g">>
SynthesizedFrom == <<"M", "i", "n", "i", " ", "M", "a", "i", "l", "e", "r", " ", "<", "b", "o", "u", "n", "c", "e", ".", "m", "e", "@", "m", "i", "n", "i", ".", "m", "a", "i", "l", "e", "r", ".", "m", "s", "g", ">">>
SynthesizedFromLine == <<"F", "r", "o", "m", ":", " ", "M", "i", "n", "i", " ", "M", "a", "i", "l", "e", "r", " ", "<", "b", "o", "u", "n", "c", "e", ".", "m", "e", "@", "m", "i", "n", "i", ".", "m", "a", "i", "l", "e", "r", ".", "m", "s", "g", ">">>

C8_DefaultSender ==
    ~InputHas(SFrom) =>
        /\ Built =>
              /\ SFrom \in DOMAIN headers
              /\ headers[SFrom] = SynthesizedFrom
              /\ \E k \in 1..Len(Emitted) : Emitted[k] = SynthesizedFromLine
        /\ \A k \in 1..Len(steps) :
              steps[k].step = "MAIL FROM" => steps[k].arg = PlaceholderAddress

\* an input with headers but no From line, whose sender was accepted
C8_Witness ==
    /\ ~InputHas(SFrom)
    /\ InputHas(STo)
    /\ Built
    /\ Succeeded("MAIL FROM")

(***************************************************************************)
(* C10.  MAIL FROM and RCPT TO are never given an empty address.  The      *)
(* program breaks this: see the trace of C10_NonEmptyAddresses.            *)
(***************************************************************************)
C10_NonEmptyAddresses ==
    \A k \in 1..Len(steps) :
        steps[k].step \in {"MAIL FROM", "RCPT TO"} => steps[k].arg # <<>>

(***************************************************************************)
(* parseEmailHeader as a function of its argument: every line of at most   *)
(* MaxLen bytes over ParseAlphabet, bare or behind a field prefix, is      *)
(* parsed, and the result is left in fromEmail.                            *)
(***************************************************************************)
MaxLen == 4

ParseAlphabet == {"<", ">", "(", ")", " ", "a"}

ParseLines == UNION {[1..n -> ParseAlphabet] : n \in 0..MaxLen}

ParseInit ==
    /\ \E prefix \in {<<>>, SFrom_, STo_} : \E s \in ParseLines : input = <<prefix \o s>>
    /\ omitUserAgent = FALSE
    /\ rnd = NoEntropy
    /\ username = ""
    /\ password = ""
    /\ pc = "parse"
    /\ pos = 0
    /\ headers = EmptyMap
    /\ body = <<>>
    /\ hasFrom = FALSE
    /\ fromEmail = EmailAddress(SDefaultName, SDefaultAddress)
    /\ sortedHeaders = <<>>
    /\ message = <<>>
    /\ toEmail = EmailAddress(<<>>, <<>>)
    /\ steps = <<>>
    /\ stdout = <<>>
    /\ exit = -1

\* line 189: fromEmail = parseEmailHeader(line)
ParseStep ==
    /\ pc = "parse"
    /\ fromEmail' = parseEmailHeader(input[1])
    /\ pc' = "parsed"
    /\ UNCHANGED <<input, omitUserAgent, rnd, username, password, pos, headers, body,
                   hasFrom, sortedHeaders, message, toEmail, steps, stdout, exit>>

ParseNext == ParseStep

ParseSpec == ParseInit /\ [][ParseNext]_vars

(***************************************************************************)
(* C9.  For a line that has both a "<" and a "(", in either order,         *)
(* parseEmailHeader gives the angle-bracket reading: the display name is   *)
(* the trimmed text before the (last) "<", the address is taken from the   *)
(* text after it, and the result is never the parenthetical reading        *)
(* (address before the "(", name after it).                               *)
(***************************************************************************)
Has(s, c) == \E i \in 1..Len(s) : s[i] = c

IsSubstring(s, t) == \E i \in 0..(Len(t) - Len(s)) : SubSeq(t, i + 1, i + Len(s)) = s

C9_AnglePreferred ==
    (pc = "parsed" /\ Has(input[1], "<") /\ Has(input[1], "(")) =>
        LET line == StripField(input[1])
            lt == LastIndex(line, "<")
        IN /\ fromEmail.Name = TrimSpace(Upto0(line, lt))
           /\ IsSubstring(fromEmail.Address, From0(line, lt + 1))
           /\ ~Has(fromEmail.Address, "<")
           /\ fromEmail # ParenForm(line)

\* a parsed line whose "(" comes before its "<", with a name and an address
C9_Witness ==
    /\ pc = "parsed"
    /\ Has(input[1], "<") /\ Has(input[1], "(")
    /\ Index(input[1], "(") < Index(input[1], "<")
    /\ fromEmail.Name # <<>>
    /\ fromEmail.Address # <<>>

(***************************************************************************)
(* sortHeaders and the header loop on a header map.  A run of SortSpec     *)
(* starts from a map of up to MaxKeys headers and serializes it with       *)
(* sortHeaders under one of the orders in which range may visit the keys.  *)
(* The text, alone or followed by the empty line that ends a header        *)
(* block, is then the standard input of the header loop, which scans it    *)
(* into a fresh map line by line.  The run ends there: what sortHeaders    *)
(* gives for the scanned map is stated in the formulas.                    *)
(***************************************************************************)
MaxKeys == 3

KFromLower == <<"f", "r", "o", "m">>
KReferences == <<"R", "e", "f", "e", "r", "e", "n", "c", "e", "s">>
KSubject == <<"S", "u", "b", "j", "e", "c", "t">>
KXTag == <<"X", "-", "T", "a", "g">>
KXTagLower == <<"x", "-", "t", "a", "g">>
KSpaced == <<"X", " ", "Y">>
KEmpty == <<>>

\* header names: listed in headerPriority (in either case) and not listed
KeyPool == {SFrom, KFromLower, KReferences, KSubject, STo, KXTag, KXTagLower,
            KSpaced, KEmpty}

\* header values, as the header loop stores them
ValuePool == {<<"a", ":", " ", "b">>, <<>>}

HeaderMaps ==
    UNION {[K -> ValuePool] : K \in {K \in SUBSET KeyPool : Cardinality(K) <= MaxKeys}}

\* bufio.ScanLines: drop one trailing carriage return
DropCR(s) == IF Len(s) > 0 /\ s[Len(s)] = CR THEN Upto0(s, Len(s) - 1) ELSE s

\* the lines bufio.Scanner yields for a text: it cuts at each line feed, and
\* a text that does not end in a line feed gives a last line
RECURSIVE ScanLines(_)
ScanLines(t) ==
    IF t = <<>> THEN <<>>
    ELSE IF Index(t, LF) = -1 THEN <<DropCR(t)>>
    ELSE <<DropCR(Upto0(t, Index(t, LF)))>> \o ScanLines(From0(t, Index(t, LF) + 1))

SortInit ==
    /\ headers \in HeaderMaps
    /\ input = <<>>
    /\ omitUserAgent = FALSE
    /\ rnd = NoEntropy
    /\ username = ""
    /\ password = ""
    /\ pc = "sort"
    /\ pos = 0
    /\ body = <<>>
    /\ hasFrom = FALSE
    /\ fromEmail = EmailAddress(SDefaultName, SDefaultAddress)
    /\ sortedHeaders = <<>>
    /\ message = <<>>
    /\ toEmail = EmailAddress(<<>>, <<>>)
    /\ steps = <<>>
    /\ stdout = <<>>
    /\ exit = -1

\* line 209: sortedHeaders := sortHeaders(headers)
SortStep ==
    /\ pc = "sort"
    /\ \E order \in RangeOrders(DOMAIN headers) : sortedHeaders' = sortHeaders(headers, order)
    /\ pc' = "sorted"
    /\ UNCHANGED <<input, omitUserAgent, rnd, username, password, pos, headers, body,
                   hasFrom, fromEmail, message, toEmail, steps, stdout, exit>>

\* lines 170-174: the scanner on the serialized text and a fresh header map
StartScan ==
    /\ pc = "sorted"
    /\ \E sep \in {<<>>, CRLF} : input' = ScanLines(sortedHeaders \o sep)
    /\ headers' = EmptyMap
    /\ hasFrom' = FALSE
    /\ fromEmail' = EmailAddress(SDefaultName, SDefaultAddress)
    /\ pos' = 0
    /\ pc' = "headers"
    /\ UNCHANGED <<omitUserAgent, rnd, username, password, body, sortedHeaders,
                   message, toEmail, steps, stdout, exit>>

SortNext == SortStep \/ StartScan \/ ScanHeaderLine \/ EndHeaders

SortSpec == SortInit /\ [][SortNext]_vars

\* the names of the emitted header lines, in the order of emission
EmittedNames == LET lines == Emitted IN [i \in 1..Len(lines) |-> NameOf(lines[i])]

(***************************************************************************)
(* C11.  The serialization of a header map does not depend on the order   *)
(* in which range visits its keys: sortHeaders gives the same bytes under  *)
(* every order.  Every header is emitted once, every header listed in      *)
(* headerPriority is emitted before every header that is not, and the      *)
(* headers that are not listed are in ascending byte order of their names. *)
(***************************************************************************)
C11_OrderIndependent ==
    pc = "sorted" =>
       LET lines == Emitted
           names == EmittedNames
       IN /\ \A order \in RangeOrders(DOMAIN headers) : sortHeaders(headers, order) = sortedHeaders
          /\ Len(names) = Cardinality(DOMAIN headers)
          /\ \A k \in DOMAIN headers :
                \E i \in 1..Len(lines) : lines[i] = k \o SColonSpace \o headers[k]
          /\ \A i, j \in 1..Len(names) :
                i < j =>
                   /\ IsPriority(names[j]) => IsPriority(names[i])
                   /\ (~IsPriority(names[i]) /\ ~IsPriority(names[j]))
                         => StrLess(names[i], names[j])

\* two listed headers and two that are not have been serialized
C11_Witness ==
    /\ pc = "sorted"
    /\ DOMAIN headers = {STo, KXTag, SFrom}
    /\ EmittedNames = <<SFrom, STo, KXTag>>

(***************************************************************************)
(* C12.  Serializing is idempotent under a round trip: when the text that  *)
(* sortHeaders gives for a header map has been scanned by the header loop, *)
(* sortHeaders gives for the scanned map, under every order in which range *)
(* may visit its keys, byte for byte the first text.                       *)
(***************************************************************************)
C12_RoundTrip ==
    (pc = "body" /\ pos = Len(input)) =>
       \A order \in RangeOrders(DOMAIN headers) : sortHeaders(headers, order) = sortedHeaders

\* a map with an empty name, an empty value and a value holding a colon has
\* been serialized and scanned, its text followed by the empty line
C12_Witness ==
    /\ pc = "body"
    /\ pos = 3
    /\ Len(input) = 3
    /\ sortedHeaders = <<":", " ", "a", ":", " ", "b", "\r", "\n", "X", "-", "T", "a", "g", ":", " ", "\r", "\n">>
    /\ headers = (KEmpty :> <<"a", ":", " ", "b">>) @@ (KXTag :> <<>>)

\* a map with a From header has been serialized and scanned: the loop parsed
\* the sender
C12_WitnessFrom ==
    /\ pc = "body"
    /\ pos = Len(input)
    /\ hasFrom
    /\ SFrom \in DOMAIN headers
    /\ sortedHeaders # <<>>

(***************************************************************************)
(* Standard input as bytes.  A run of RawSpec starts from a text made of   *)
(* up to MaxPieces pieces: a header line, a line of text, a line feed, a   *)
(* carriage return.  The scanner cuts it into lines, as bufio.ScanLines    *)
(* does, and main runs on these lines from the header loop on, in a run    *)
(* with two positional arguments and without -c, -u and -p.                *)
(***************************************************************************)
MaxPieces == 4

RawPieces == {LTo, LText, <<LF>>, <<CR>>}

RawTexts == {Concat(ps) : ps \in UNION {[1..n -> RawPieces] : n \in 0..MaxPieces}}

RawInit ==
    /\ \E raw \in RawTexts : input = ScanLines(raw)
    /\ omitUserAgent = FALSE
    /\ rnd = NoEntropy
    /\ username = ""
    /\ password = ""
    /\ pc = "headers"
    /\ pos = 0
    /\ headers = EmptyMap
    /\ body = <<>>
    /\ hasFrom = FALSE
    /\ fromEmail = EmailAddress(SDefaultName, SDefaultAddress)
    /\ sortedHeaders = <<>>
    /\ message = <<>>
    /\ toEmail = EmailAddress(<<>>, <<>>)
    /\ steps = <<>>
    /\ stdout = <<>>
    /\ exit = -1

\* main from the header loop on; without credentials there is no Authenticate
RawNext ==
    \/ ScanHeaderLine
    \/ EndHeaders
    \/ ScanBodyLine
    \/ BuildMessage
    \/ CreateDialer
    \/ ProxyConnect
    \/ ProtocolGreet
    \/ TLSUpgrade
    \/ MailFrom
    \/ RcptTo
    \/ DataOpen
    \/ DataWrite
    \/ DataClose
    \/ Quit

RawSpec == RawInit /\ [][RawNext]_vars

\* the lines of the input after its first empty line
BodyLines(inp) ==
    IF \E i \in 1..Len(inp) : inp[i] = <<>>
    THEN SubSeq(inp, Len(HeaderBlock(inp)) + 2, Len(inp))
    ELSE <<>>

\* every line feed of t follows a carriage return
EndsInCRLF(t) == \A i \in 1..Len(t) : t[i] = LF => i > 1 /\ t[i - 1] = CR

\* the message is the header block, one empty line, the body
MessageLayout ==
    /\ message = sortedHeaders \o CRLF \o body
    /\ LET lines == Emitted
       IN /\ Len(lines) = Cardinality(DOMAIN headers)
          /\ \A k \in DOMAIN headers :
                \E i \in 1..Len(lines) : lines[i] = k \o SColonSpace \o headers[k]
          /\ sortedHeaders = Concat([i \in 1..Len(lines) |-> lines[i] \o CRLF])
    /\ LET rest == BodyLines(input)
       IN body = Concat([i \in 1..Len(rest) |-> rest[i] \o CRLF])
    /\ \A i \in 1..Len(steps) : steps[i].step = "payload write" => steps[i].arg = message
    /\ (\A i \in 1..Len(input) : input[i] # <<>>) =>
          /\ body = <<>>
          /\ \A i \in 1..Len(input) :
                IsHeaderLine(input[i]) => NameOf(input[i]) \in DOMAIN headers

(***************************************************************************)
(* C13.  The message written in the DATA phase is the serialized header    *)
(* block, then one empty line, then the body.  Every header line and every *)
(* body line is followed by CR LF, whether the input ended it with LF,     *)
(* with CR LF or not at all, and the message has no line feed without a    *)
(* carriage return before it.  An input without an empty line is not an    *)
(* error: its lines are scanned as headers and the body is empty.          *)
(***************************************************************************)
C13_MessageLayout ==
    /\ pc \in {"headers", "body", "connect"} => exit = -1
    /\ Built => MessageLayout /\ EndsInCRLF(message)

\* an input with a header line, an empty line and a line of text has been
\* written in the DATA phase
C13_Witness ==
    /\ input = <<LTo, <<>>, LText>>
    /\ Issued("payload write")
    /\ body = LText \o CRLF

\* an input without an empty line has been built into a message
C13_WitnessNoBlank ==
    /\ input = <<LTo, LText>>
    /\ Built
    /\ body = <<>>

IsDigit(c) == Ord[c] >= 48 /\ Ord[c] <= 57
IsLowerLetter(c) == Ord[c] >= 97 /\ Ord[c] <= 122
IsLowerHex(c) == IsDigit(c) \/ (Ord[c] >= 97 /\ Ord[c] <= 102)

\* "<", 10 hex digits, ".", decimal digits, "@", 5 letters, ".", 2 letters, ">"
IsMessageIDShape(id) ==
    LET n == Len(id) - 22
    IN /\ n >= 1
       /\ id[1] = "<"
       /\ \A i \in 2..11 : IsLowerHex(id[i])
       /\ id[12] = "."
       /\ \A i \in 13..(12 + n) : IsDigit(id[i])
       /\ id[13 + n] = "@"
       /\ \A i \in (14 + n)..(18 + n) : IsLowerLetter(id[i])
       /\ id[19 + n] = "."
       /\ \A i \in (20 + n)..(21 + n) : IsLowerLetter(id[i])
       /\ id[22 + n] = ">"

(***************************************************************************)
(* C14.  For an input without a Message-ID header the generated           *)
(* identifier has, on every run, the shape "<", 10 lower-case hex digits,  *)
(* ".", decimal digits, "@", 5 lower-case letters, ".", 2 lower-case       *)
(* letters, ">".  A failure of the random source does not end the run:     *)
(* each group of random letters is then the fallback string.               *)
(***************************************************************************)
C14_MessageIDShape ==
    (Built /\ ~InputHas(SMessageID)) =>
       /\ SMessageID \in DOMAIN headers
       /\ IsMessageIDShape(headers[SMessageID])
       /\ ~rnd.domain.ok => IsSubstring(<<"@">> \o SFallback \o <<".">>, headers[SMessageID])
       /\ pc = "connect" => exit = -1

(***************************************************************************)
(* C15.  Authenticate is entered if and only if the user name and the      *)
(* password are both non-empty.  With either one empty no Authenticate     *)
(* call is ever issued and the call after TLSUpgrade is MAIL FROM.  When   *)
(* Authenticate is entered and fails, the run ends with status 1 and MAIL  *)
(* FROM is not issued.                                                     *)
(***************************************************************************)
C15_AuthIffCredentials ==
    LET both == username # "" /\ password # ""
    IN /\ (pc = "auth" \/ Issued("Authenticate")) => both
       /\ (Issued("TLSUpgrade") /\ both) => (pc = "auth" \/ Issued("Authenticate"))
       /\ ~both =>
             \A i \in 1..Len(steps) :
                steps[i].step = "TLSUpgrade" =>
                   /\ i = Len(steps) => pc = "mail"
                   /\ i < Len(steps) => steps[i + 1].step = "MAIL FROM"
       /\ both =>
             \A i \in 1..Len(steps) :
                (steps[i].step = "TLSUpgrade" /\ i < Len(steps)) =>
                   steps[i + 1].step = "Authenticate"
       /\ Failed("Authenticate") =>
             /\ exit = 1
             /\ pc = "exited"
             /\ ~Issued("MAIL FROM")
             /\ steps[Len(steps)].step = "Authenticate"

\* Authenticate was entered and failed
C15_Witness ==
    /\ Failed("Authenticate")
    /\ exit = 1

\* with a user name and no password the session went from TLSUpgrade to MAIL FROM
C15_WitnessSkip ==
    /\ username = "secret"
    /\ password = ""
    /\ Issued("MAIL FROM")

(***************************************************************************)
(* The caller's configuration.  A run of OptSpec is a run of main on a     *)
(* short input, started by a caller who may ask that the User-Agent        *)
(* header be omitted.  Config (lines 24-29) has no field for such a     *)
(* setting and main defines no flag for it: nothing reads it.              *)
(***************************************************************************)
LUserAgent == <<"U", "s", "e", "r", "-", "A", "g", "e", "n", "t", ":", " ", "u">>

OptInputs ==
    {<<>>, <<LTo, LBlank, LText>>} \cup {<<l>> : l \in Lines \cup {LUserAgent}}

OptInit ==
    /\ input \in OptInputs
    /\ omitUserAgent \in BOOLEAN
    /\ rnd = NoEntropy
    /\ username \in Credentials
    /\ password \in Credentials
    /\ pc = "args"
    /\ pos = 0
    /\ headers = EmptyMap
    /\ body = <<>>
    /\ hasFrom = FALSE
    /\ fromEmail = EmailAddress(SDefaultName, SDefaultAddress)
    /\ sortedHeaders = <<>>
    /\ message = <<>>
    /\ toEmail = EmailAddress(<<>>, <<>>)
    /\ steps = <<>>
    /\ stdout = <<>>
    /\ exit = -1

OptSpec == OptInit /\ [][Next]_vars

(***************************************************************************)
(* C16.  The emitted message carries a User-Agent header with the fixed    *)
(* identifying string, unless the caller has set the option to omit it:    *)
(* then the emitted message has no User-Agent header.                      *)
(***************************************************************************)
C16_UserAgentUnlessOmitted ==
    Built =>
       IF omitUserAgent
       THEN \A i \in 1..Len(Emitted) : ~EqualFold(NameOf(Emitted[i]), SUserAgent)
       ELSE \E i \in 1..Len(Emitted) : Emitted[i] = SUserAgent \o SColonSpace \o SUserAgentValue

\* the text of line between its first "<" and the ">" that follows it (or the
\* end of the line, if none follows)
BetweenAngles(line) ==
    LET rest == From0(line, Index(line, "<") + 1)
    IN IF Index(rest, ">") = -1 THEN rest ELSE Upto0(rest, Index(rest, ">"))

(***************************************************************************)
(* C17.  Whenever the trimmed line contains a "<", parseEmailHeader        *)
(* returns as address exactly the trimmed text between the "<" and the     *)
(* ">" that follows it, and as name the trimmed text before the "<", also  *)
(* when text follows the ">" and when the line has more than one "<".      *)
(***************************************************************************)
C17_ExactAddress ==
    (pc = "parsed" /\ Has(StripField(input[1]), "<")) =>
       /\ fromEmail.Address = TrimSpace(BetweenAngles(StripField(input[1])))
       /\ fromEmail.Name = TrimSpace(Upto0(StripField(input[1]), Index(StripField(input[1]), "<")))

\* the positions of the header lines scanned so far
ScannedLines ==
    {i \in 1..Len(HeaderBlock(input)) : i <= pos /\ pc # "args" /\ IsHeaderLine(input[i])}

\* the last scanned line that carries exactly the name of line i
LastOfName(i) ==
    CHOOSE j \in ScannedLines :
        /\ NameOf(input[j]) = NameOf(input[i])
        /\ \A k \in ScannedLines : NameOf(input[k]) = NameOf(input[i]) => k <= j

(***************************************************************************)
(* C18.  After any sequence of header lines has been scanned, the header   *)
(* set holds one value for each header name, the value of the last line    *)
(* that carries the name.  When several From lines occur, whatever the     *)
(* case of their names, the envelope sender is taken from the last of      *)
(* them and the message emits one From header, that of the same line.  The *)
(* program breaks this: see the trace of C18_LastLineWins.                 *)
(***************************************************************************)
C18_LastLineWins ==
    /\ \A i \in ScannedLines :
          NameOf(input[i]) # SUserAgent =>
             /\ NameOf(input[i]) \in DOMAIN headers
             /\ headers[NameOf(input[i])] = ValueOf(input[LastOfName(i)])
    /\ (Built /\ Cardinality(InputLinesOf(SFrom)) >= 2) =>
          LET last == LastInputLineOf(SFrom)
              lines == Emitted
              fromHeaders == {i \in 1..Len(lines) : EqualFold(NameOf(lines[i]), SFrom)}
          IN /\ fromEmail = parseEmailHeader(last)
             /\ \A k \in 1..Len(steps) :
                   steps[k].step = "MAIL FROM" =>
                      steps[k].arg = parseEmailHeader(last).Address
             /\ Cardinality(fromHeaders) = 1
             /\ \A i \in fromHeaders :
                   lines[i] = NameOf(last) \o SColonSpace \o ValueOf(last)

\* the header loop is about to read a line that has text and no colon
AtBareLine ==
    /\ pc = "headers"
    /\ pos < Len(input)
    /\ input[pos + 1] # <<>>
    /\ ~IsHeaderLine(input[pos + 1])

\* the positions of the lines of the header section that have text and no colon
BareLines ==
    {i \in 1..Len(HeaderBlock(input)) : input[i] # <<>> /\ ~IsHeaderLine(input[i])}

\* how many of the lines seq are the text t
Occurrences(seq, t) == Cardinality({i \in 1..Len(seq) : seq[i] = t})

(***************************************************************************)
(* C19.  A line of the header section that has no colon is dropped         *)
(* without error: reading it changes neither the header set nor the        *)
(* envelope sender nor the body, ends neither the header loop nor the run, *)
(* and the line does not appear in the emitted message (the message has    *)
(* its text only as often as the body of the input has it).                *)
(***************************************************************************)
C19_BareLineDropped ==
    /\ [][AtBareLine =>
            /\ headers' = headers
            /\ fromEmail' = fromEmail
            /\ hasFrom' = hasFrom
            /\ body' = body
            /\ pc' = "headers"
            /\ pos' = pos + 1
            /\ exit' = exit
            /\ stdout' = stdout]_vars
    /\ [](Built =>
            \A i \in BareLines :
               Occurrences(SplitCRLF(message), input[i])
                  = Occurrences(BodyLines(input), input[i]))

\* a line without a colon was read, the header after it was scanned, and the
\* message was written in the DATA phase
C19_Witness ==
    /\ input = <<LText, LTo>>
    /\ DOMAIN headers = {STo, SFrom, SMessageID, SUserAgent}
    /\ body = <<>>
    /\ Issued("payload write")

\* how many times the step was issued
TimesIssued(step) == Cardinality({i \in 1..Len(steps) : steps[i].step = step})

\* the positions of main, in the order of the program text
PcRank ==
    [p \in {"args", "headers", "body", "connect", "dial", "greet", "starttls", "auth",
            "mail", "rcpt", "data", "write", "close", "quit", "exited"} |->
        CASE p = "args" -> 0 [] p = "headers" -> 1 [] p = "body" -> 2
          [] p = "connect" -> 3 [] p = "dial" -> 4 [] p = "greet" -> 5
          [] p = "starttls" -> 6 [] p = "auth" -> 7 [] p = "mail" -> 8
          [] p = "rcpt" -> 9 [] p = "data" -> 10 [] p = "write" -> 11
          [] p = "close" -> 12 [] p = "quit" -> 13 [] p = "exited" -> 14]

\* the guards of ScanHeaderLine and of BuildMessage, which are enabled whenever
\* their guards hold: they assign a value to every variable they change
ScanOrBuildReady ==
    \/ pc = "headers" /\ pos < Len(input) /\ input[pos + 1] # <<>>
    \/ pc = "body" /\ pos = Len(input)

\* the other statements of main
RestOfMain ==
    \/ ParseArgs \/ EndHeaders \/ ScanBodyLine
    \/ CreateDialer \/ ProxyConnect \/ ProtocolGreet \/ TLSUpgrade \/ Authenticate
    \/ MailFrom \/ RcptTo \/ DataOpen \/ DataWrite \/ DataClose \/ Quit

(***************************************************************************)
(* C20.  When every network call returns, every run ends, in one of the    *)
(* two final states exit status 0 and exit status 1: as long as the        *)
(* process has not ended main has a next statement to execute, every step  *)
(* moves main forward in the program text or the scanner forward in the    *)
(* input, so that a run has at most 14 + Len(input) steps, and nothing     *)
(* happens after the end.  Each delivery step is issued at most once.  The *)
(* bytes of the message are fixed before ProxyConnect: no step of the      *)
(* delivery session and no response of the server changes them, and they   *)
(* are the bytes written in the DATA phase.  The program breaks this: a    *)
(* command line that flag.Parse rejects ends the run with status 2; see    *)
(* the trace of C20_Terminates.                                            *)
(***************************************************************************)
C20_Terminates ==
    /\ [](pc # "exited" => (ScanOrBuildReady \/ ENABLED RestOfMain))
    /\ [](pos <= Len(input))
    /\ [][\/ PcRank[pc'] > PcRank[pc] /\ pos' >= pos
          \/ pc' = pc /\ pos' = pos + 1]_vars
    /\ [](pc = "exited" <=> exit \in {0, 1})
    /\ [](exit \in {-1, 0, 1})
    /\ [](\A s \in {StepOrder[i] : i \in 1..Len(StepOrder)} : TimesIssued(s) <= 1)
    /\ [](steps # <<>> => Built /\ message = sortedHeaders \o CRLF \o body)
    /\ [][pc \notin {"args", "headers", "body"} => message' = message]_vars
    /\ [](\A i \in 1..Len(steps) : steps[i].step = "payload write" => steps[i].arg = message)

====
